---- MODULE Spec2Model ----
(***************************************************************************)
(* Model of examples/reinforcement-learning/main.rs (tch-rs): the policy   *)
(* gradient training loop over a Gym environment.                          *)
(*                                                                         *)
(* The environment (Python, behind GymEnv) and the tensor engine are       *)
(* external: the environment answers reset/step nondeterministically from  *)
(* small sets (or fails, the PyResult Err that `?` propagates), the        *)
(* multinomial draw is a nondeterministic choice of an action index, and   *)
(* the optimizer step is a version counter on the parameters.              *)
(***************************************************************************)
EXTENDS Integers, Sequences, FiniteSets, TLC

\* ---------------------------------------------------------------- bounds

\* Epochs of a run: stands for the 50 of `for epoch_idx in 0..50`.
NumEpochs == 2

\* The threshold of `steps.len() > 5000` ranges over 0..MaxThreshold.
MaxThreshold == 2

\* An episodic environment ends every episode within MaxEpLen steps.
MaxEpLen == 2

\* Longest batch handed to the training step on its own (SpecTrain).
MaxBatchLen == 3

\* Cap of the rollout's length. Episodes that end keep the batch within
\* threshold + MaxEpLen Steps, so the cap only ever stops the collection of
\* an episode that never ends.
MaxSteps == MaxThreshold + MaxEpLen

\* ------------------------------------------------------------- constants

\* Output width of the second Linear layer and of the action mask.
NumActions == 2

\* --------------------------------------------------------- value domains

\* Observations: env.reset answers 0, env.step answers 1 or 2.
ResetObs == {0}
StepObs == {1, 2}
Obs == ResetObs \cup StepObs
Rewards == {1, 2}
\* The (observation, reward) pairs an env.step may answer.
StepAnswers == {[obs |-> 1, reward |-> 1], [obs |-> 2, reward |-> 2]}
Actions == 0 .. (NumActions - 1)
Thresholds == 0 .. MaxThreshold
\* An episode the environment starts either ends or never does.
EnvKinds == {"episodic", "endless"}

NoObs == -1
NoAction == -1
NoStep == [obs |-> NoObs, action |-> NoAction, reward |-> 0, is_done |-> FALSE]
NoNum == -1
NoAvg == <<0, 0>>

\* struct Step
Step == [obs : Obs, action : Actions, reward : Rewards, is_done : BOOLEAN]

VARIABLES
    pc,              \* position in main
    epoch_idx,       \* loop variable of `for epoch_idx in 0..50`
    params,          \* version of the VarStore: optimizer steps applied
    threshold,       \* the literal of `steps.len() > 5000`
    env_kind,        \* "episodic" | "endless": whether the environment's
                     \* current episode ever ends, settled by its first step
    env_state,       \* "unreset" | "running" | "over" | "failed"
    env_len,         \* steps taken in the environment's current episode
    obs,             \* let mut obs
    steps,           \* let mut steps: Vec<Step>
    action,          \* let action
    step,            \* let step
    sum_r,           \* let sum_r
    episodes,        \* let episodes
    avg,             \* sum_r / episodes as f64: a fraction <<num, den>>
    n_printed,       \* lines written by println!
    batch_size,      \* let batch_size
    rewards,         \* let rewards = accumulate_rewards(&steps)
    action_mask,     \* let action_mask
    trace,           \* history: the environment's answers in this epoch
    sampled_under    \* history: params versions the epoch's actions used

vars == <<pc, epoch_idx, params, threshold, env_kind, env_state, env_len,
          obs, steps, action, step, sum_r, episodes, avg, n_printed,
          batch_size, rewards, action_mask, trace, sampled_under>>

envVars == <<env_state, env_len>>
reportVars == <<sum_r, episodes, avg, n_printed>>
trainVars == <<batch_size, rewards, action_mask>>

\* ------------------------------------------------------- pure functions

\* copy_with_obs keeping the Step's own observation
copy_with_obs_own(self, o) ==
    [obs |-> self.obs, action |-> self.action, reward |-> self.reward,
     is_done |-> self.is_done]

\* Step::copy_with_obs
copy_with_obs(self, o) ==
    [obs |-> o, action |-> self.action, reward |-> self.reward,
     is_done |-> self.is_done]

\* accumulate_rewards: the reversed loop from index i down to 1, with the
\* accumulator acc and the vector rs being rewritten in place.
RECURSIVE AccLoop(_, _, _, _)
AccLoop(ss, rs, i, acc) ==
    IF i = 0 THEN rs
    ELSE LET acc1 == IF ss[i].is_done THEN 0 ELSE acc
             acc2 == acc1 + rs[i]
         IN AccLoop(ss, [rs EXCEPT ![i] = acc2], i - 1, acc2)

\* accumulate_rewards without the reset of the accumulator at a done Step
RECURSIVE AccLoopLeaky(_, _, _, _)
AccLoopLeaky(ss, rs, i, acc) ==
    IF i = 0 THEN rs
    ELSE AccLoopLeaky(ss, [rs EXCEPT ![i] = acc + rs[i]], i - 1, acc + rs[i])

accumulate_rewards_leaky(ss) ==
    AccLoopLeaky(ss, [i \in 1 .. Len(ss) |-> ss[i].reward], Len(ss), 0)

accumulate_rewards(ss) ==
    AccLoop(ss, [i \in 1 .. Len(ss) |-> ss[i].reward], Len(ss), 0)

RECURSIVE SumSeq(_)
SumSeq(q) == IF q = <<>> THEN 0 ELSE Head(q) + SumSeq(Tail(q))

\* the sum taken over the reward-to-go values instead of the raw rewards
SumRewardsToGo(ss) == SumSeq(accumulate_rewards(ss))

\* steps.iter().map(|s| s.reward).sum()
RECURSIVE SumR(_)
SumR(ss) == IF ss = <<>> THEN 0 ELSE Head(ss).reward + SumR(Tail(ss))

\* steps.iter().map(|s| s.is_done as i64).sum()
RECURSIVE CountDone(_)
CountDone(ss) ==
    IF ss = <<>> THEN 0
    ELSE (IF Head(ss).is_done THEN 1 ELSE 0) + CountDone(Tail(ss))

RECURSIVE Gcd(_, _)
Gcd(a, b) == IF b = 0 THEN a ELSE Gcd(b, a % b)

\* sum_r / episodes as f64, kept exact: the fraction in lowest terms;
\* a zero divisor gives <<1, 0>> (inf) or <<0, 0>> (NaN), never a panic.
FDiv(a, b) ==
    IF b = 0 THEN (IF a = 0 THEN <<0, 0>> ELSE <<1, 0>>)
    ELSE LET g == Gcd(a, b) IN <<a \div g, b \div g>>

\* Tensor::int_vec(&actions).unsqueeze(1): an N x 1 index matrix
ActionsColumn(ss) == [i \in 1 .. Len(ss) |-> <<ss[i].action>>]

\* Tensor::zeros(&[n, a])
Zeros(n, a) == [i \in 1 .. n |-> [c \in 0 .. (a - 1) |-> 0]]

\* scatter_ along dimension 0: self[index[i][j]][j] = value
scatter_dim0(self, index, value) ==
    [i \in DOMAIN self |->
        [c \in DOMAIN self[i] |->
            IF \E k \in DOMAIN index :
                   (c + 1) \in DOMAIN index[k] /\ index[k][c + 1] + 1 = i
            THEN value ELSE self[i][c]]]

\* scatter_(1, index, value): self[i][index[i][j]] = value
scatter_(self, index, value) ==
    [i \in DOMAIN self |->
        [c \in DOMAIN self[i] |->
            IF \E j \in DOMAIN index[i] : index[i][j] = c
            THEN value ELSE self[i][c]]]

\* --------------------------------------------------------- environment

\* What the episode may be once env.step is called: open at its first
\* step, settled afterwards.
StepKinds == IF env_len = 0 THEN EnvKinds ELSE {env_kind}

\* What is_done an env.step may answer in an episode of kind k.
StepDones(k) ==
    IF k = "endless" THEN {FALSE}
    ELSE IF env_len + 1 >= MaxEpLen THEN {TRUE} ELSE BOOLEAN

\* ---------------------------------------------------------------- Init

LocalsInit ==
    /\ obs = NoObs
    /\ steps = <<>>
    /\ action = NoAction
    /\ step = NoStep
    /\ sum_r = NoNum
    /\ episodes = NoNum
    /\ avg = NoAvg
    /\ batch_size = NoNum
    /\ rewards = <<>>
    /\ action_mask = <<>>
    /\ trace = <<>>
    /\ sampled_under = {}

Init ==
    /\ pc = "epoch"
    /\ epoch_idx = 0
    /\ params = 0
    /\ threshold \in Thresholds
    /\ env_kind = "episodic"
    /\ env_state = "unreset"
    /\ env_len = 0
    /\ n_printed = 0
    /\ LocalsInit

\* ------------------------------------------------------------- actions

\* `let mut obs = env.reset()?; let mut steps = vec![];`
EpochReset ==
    /\ pc = "epoch"
    /\ epoch_idx < NumEpochs
    /\ \/ \E o \in ResetObs :
            /\ env_state' = "running"
            /\ env_kind' = "episodic"
            /\ env_len' = 0
            /\ obs' = o
            /\ steps' = <<>>
            /\ trace' = <<[call |-> "reset", obs |-> o]>>
            /\ pc' = "sample"
       \/ /\ env_state' = "failed"
          /\ pc' = "error"
          /\ UNCHANGED <<env_kind, env_len, obs, steps, trace>>
    /\ UNCHANGED <<epoch_idx, params, threshold, action, step,
                   reportVars, trainVars, sampled_under>>

\* the range 0..50 is exhausted: Ok(())
RunEnd ==
    /\ pc = "epoch"
    /\ epoch_idx >= NumEpochs
    /\ pc' = "done"
    /\ UNCHANGED <<epoch_idx, params, threshold, env_kind, envVars, obs,
                   steps, action, step, reportVars, trainVars, trace,
                   sampled_under>>

\* One pass through lines 100-108: the no_grad block (forward pass,
\* softmax, multinomial(1)) draws the action, then
\* `let step = env.step(action)?; steps.push(step.copy_with_obs(&obs));`
RolloutStep ==
    /\ pc = "sample"
    /\ Len(steps) < MaxSteps
    /\ \E a \in Actions :
        /\ action' = a
        /\ sampled_under' = sampled_under \cup {params}
        /\ \/ \E ans \in StepAnswers, k \in StepKinds :
              \E d \in StepDones(k) :
                LET s == [obs |-> ans.obs, action |-> a,
                          reward |-> ans.reward, is_done |-> d]
                IN /\ step' = s
                   /\ env_kind' = k
                   /\ steps' = Append(steps, copy_with_obs(s, obs))
                   /\ env_state' = IF d THEN "over" ELSE "running"
                   /\ env_len' = env_len + 1
                   /\ trace' = Append(trace,
                          [call |-> "step", obs |-> s.obs,
                           action |-> a, reward |-> s.reward,
                           is_done |-> d])
                   /\ pc' = "advance"
           \/ /\ env_state' = "failed"
              /\ pc' = "error"
              /\ UNCHANGED <<env_kind, env_len, step, steps, trace>>
    /\ UNCHANGED <<epoch_idx, params, threshold, obs,
                   reportVars, trainVars>>

\* no reset between episodes
NeedsResetNever(s) == FALSE

\* the break taken at any Step once the batch is long enough
ShouldBreakAnyStep(s, n, t) == n > t

\* the break taken from the threshold on (>= for >)
ShouldBreakAtLeast(s, n, t) == s.is_done /\ n >= t

\* the break never taken
ShouldBreakNever(s, n, t) == FALSE

\* the condition of `obs = if step.is_done { env.reset()? } else ...`
NeedsReset(s) == s.is_done

\* the condition of `if step.is_done && steps.len() > 5000 { break; }`
ShouldBreak(s, n, t) == s.is_done /\ n > t

\* Advance with a failed reset swallowed: the loop goes on with the
\* observation it has.
AdvanceSwallowErr ==
    /\ pc = "advance"
    /\ IF step.is_done
       THEN \/ \E o \in ResetObs :
                 /\ env_state' = "running"
                 /\ env_kind' = "episodic"
                 /\ env_len' = 0
                 /\ obs' = o
                 /\ trace' = Append(trace, [call |-> "reset", obs |-> o])
            \/ /\ env_state' = "failed"
               /\ UNCHANGED <<env_kind, env_len, obs, trace>>
       ELSE /\ obs' = step.obs
            /\ UNCHANGED <<env_kind, envVars, trace>>
    /\ pc' = IF step.is_done /\ Len(steps) > threshold
             THEN "report" ELSE "sample"
    /\ action' = NoAction
    /\ step' = NoStep
    /\ UNCHANGED <<epoch_idx, params, threshold, steps,
                   reportVars, trainVars, sampled_under>>

\* Lines 109-112:
\* `obs = if step.is_done { env.reset()? } else { step.obs };`
\* `if step.is_done && steps.len() > 5000 { break; }`
\* and, when the loop goes round, the pass's locals go out of scope.
Advance ==
    /\ pc = "advance"
    /\ IF NeedsReset(step)
       THEN \/ \E o \in ResetObs :
                 /\ env_state' = "running"
                 /\ env_kind' = "episodic"
                 /\ env_len' = 0
                 /\ obs' = o
                 /\ trace' = Append(trace, [call |-> "reset", obs |-> o])
                 /\ pc' = IF ShouldBreak(step, Len(steps), threshold)
                          THEN "report" ELSE "sample"
                 /\ action' = NoAction
                 /\ step' = NoStep
            \/ /\ env_state' = "failed"
               /\ pc' = "error"
               /\ UNCHANGED <<env_kind, env_len, obs, trace, action, step>>
       ELSE /\ obs' = step.obs
            /\ pc' = IF ShouldBreak(step, Len(steps), threshold)
                     THEN "report" ELSE "sample"
            /\ action' = NoAction
            /\ step' = NoStep
            /\ UNCHANGED <<env_kind, envVars, trace>>
    /\ UNCHANGED <<epoch_idx, params, threshold, steps,
                   reportVars, trainVars, sampled_under>>

\* sum_r, episodes, println!
Report ==
    /\ pc = "report"
    /\ sum_r' = SumR(steps)
    /\ episodes' = CountDone(steps)
    /\ avg' = FDiv(SumR(steps), CountDone(steps))
    /\ n_printed' = n_printed + 1
    /\ pc' = "prepare"
    /\ UNCHANGED <<epoch_idx, params, threshold, env_kind, envVars, obs,
                   steps, action, step, trainVars, trace, sampled_under>>

\* batch_size, actions, rewards, action_mask
Prepare ==
    /\ pc = "prepare"
    /\ batch_size' = Len(steps)
    /\ rewards' = accumulate_rewards(steps)
    /\ action_mask' =
           scatter_(Zeros(Len(steps), NumActions), ActionsColumn(steps), 1)
    /\ pc' = "update"
    /\ UNCHANGED <<epoch_idx, params, threshold, env_kind, envVars, obs,
                   steps, action, step, reportVars, trace, sampled_under>>

\* Update without the optimizer step
UpdateNoStep ==
    /\ pc = "update"
    /\ epoch_idx' = epoch_idx + 1
    /\ pc' = "epoch"
    /\ obs' = NoObs
    /\ steps' = <<>>
    /\ sum_r' = NoNum
    /\ episodes' = NoNum
    /\ avg' = NoAvg
    /\ batch_size' = NoNum
    /\ rewards' = <<>>
    /\ action_mask' = <<>>
    /\ trace' = <<>>
    /\ sampled_under' = {}
    /\ UNCHANGED <<params, threshold, env_kind, envVars, action, step,
                   n_printed>>

\* logits, log_probs, loss, opt.backward_step(&loss); the iteration's
\* locals go out of scope
Update ==
    /\ pc = "update"
    /\ params' = params + 1
    /\ epoch_idx' = epoch_idx + 1
    /\ pc' = "epoch"
    /\ obs' = NoObs
    /\ steps' = <<>>
    /\ sum_r' = NoNum
    /\ episodes' = NoNum
    /\ avg' = NoAvg
    /\ batch_size' = NoNum
    /\ rewards' = <<>>
    /\ action_mask' = <<>>
    /\ trace' = <<>>
    /\ sampled_under' = {}
    /\ UNCHANGED <<threshold, env_kind, envVars, action, step, n_printed>>

Next ==
    \/ EpochReset
    \/ RunEnd
    \/ RolloutStep
    \/ Advance
    \/ Report
    \/ Prepare
    \/ Update

Spec == Init /\ [][Next]_vars

\* The run as the single thread executes it: it never stops while a
\* statement is left to execute.
FairSpec == Spec /\ WF_vars(Next)

\* ------------------------------------------- the training step on its own

\* Batches of up to MaxBatchLen Steps, whatever their done flags.
RECURSIVE SeqsUpTo(_, _)
SeqsUpTo(S, n) ==
    IF n = 0 THEN {<<>>}
    ELSE LET shorter == SeqsUpTo(S, n - 1)
         IN shorter \cup
            {Append(q, x) : q \in {r \in shorter : Len(r) = n - 1}, x \in S}

\* main at line 124, holding an arbitrary batch.
InitTrain ==
    /\ pc = "prepare"
    /\ epoch_idx = 0
    /\ params = 0
    /\ threshold \in {MaxThreshold}
    /\ env_kind = "episodic"
    /\ env_state = "running"
    /\ env_len = 0
    /\ steps \in SeqsUpTo(Step, MaxBatchLen)
    /\ obs = 0
    /\ action = NoAction
    /\ step = NoStep
    /\ sum_r = SumR(steps)
    /\ episodes = CountDone(steps)
    /\ avg = FDiv(SumR(steps), CountDone(steps))
    /\ n_printed = 1
    /\ batch_size = NoNum
    /\ rewards = <<>>
    /\ action_mask = <<>>
    /\ trace = <<>>
    /\ sampled_under = {0}

NextTrain == Prepare

SpecTrain == InitTrain /\ [][NextTrain]_vars

\* ------------------------------------------------------------ properties

\* The rollout loop has been left and the batch is still held.
Exited == pc \in {"report", "prepare", "update"}

IsStepCall(e) == e.call = "step"

\* The answered env.step calls of this epoch's history, in order.
AnsweredSteps == SelectSeq(trace, IsStepCall)

\* How many env.step calls the first p calls of the history hold.
StepsUpTo(p) == Len(SelectSeq(SubSeq(trace, 1, p), IsStepCall))

\* The rewards the environment answered, in order.
RawRewards == [i \in 1 .. Len(AnsweredSteps) |-> AnsweredSteps[i].reward]

\* An environment call is issued by the transition: an answered one
\* lengthens the history, a failed one leaves the environment failed.
EnvCalled ==
    \/ trace' # trace /\ trace' # <<>>
    \/ env_state' = "failed" /\ env_state # "failed"

\* A reset is issued by the transition.
ResetIssued ==
    \/ /\ Len(trace') = Len(trace) + 1
       /\ trace'[Len(trace')].call = "reset"
    \/ /\ env_state' = "failed"
       /\ env_state # "failed"
       /\ pc # "sample"

\* C1: for every threshold (0 included) and every environment behaviour,
\* the batch held once the rollout loop has exited is non-empty and its
\* last Step has is_done = TRUE.
C1_BatchEndsOnEpisodeBoundary ==
    Exited => Len(steps) > 0 /\ steps[Len(steps)].is_done

\* A loop exit with threshold 0 after an episode of two Steps.
C1_Witness ==
    pc = "report" /\ threshold = 0 /\ Len(steps) = 2

\* The sum of rewards i..j of a batch.
RECURSIVE SumFromTo(_, _, _)
SumFromTo(ss, i, j) ==
    IF i > j THEN 0 ELSE ss[i].reward + SumFromTo(ss, i + 1, j)

\* The reward-to-go of Step i: its reward and those of the later Steps up
\* to the first done Step at or after i (or the end of the batch).
RewardToGo(ss, i) ==
    LET dones == {j \in i .. Len(ss) : ss[j].is_done}
        last == IF dones = {} THEN Len(ss)
                ELSE CHOOSE j \in dones : \A k \in dones : j <= k
    IN SumFromTo(ss, i, last)

ExampleBatch ==
    << [obs |-> 0, action |-> 0, reward |-> 1, is_done |-> FALSE],
       [obs |-> 0, action |-> 0, reward |-> 2, is_done |-> TRUE],
       [obs |-> 0, action |-> 0, reward |-> 5, is_done |-> FALSE],
       [obs |-> 0, action |-> 0, reward |-> 3, is_done |-> TRUE] >>

\* C2: accumulate_rewards returns a sequence as long as the batch whose
\* entry i is the reward-to-go of Step i within its episode; entry i minus
\* entry i+1 is reward i where Step i is not done, entry i is reward i
\* where it is done; rewards [1,2,5,3] with done [F,T,F,T] give [3,2,8,3].
C2_RewardToGo ==
    /\ accumulate_rewards(ExampleBatch) = <<3, 2, 8, 3>>
    /\ pc = "update" =>
         /\ Len(rewards) = Len(steps)
         /\ \A i \in 1 .. Len(steps) :
              /\ rewards[i] = RewardToGo(steps, i)
              /\ steps[i].is_done => rewards[i] = steps[i].reward
              /\ ~steps[i].is_done =>
                   rewards[i] - (IF i < Len(steps) THEN rewards[i + 1] ELSE 0)
                     = steps[i].reward

\* A batch with an episode boundary in the middle and an unfinished tail.
C2_Witness ==
    /\ pc = "update"
    /\ Len(steps) = 3
    /\ ~steps[1].is_done /\ steps[2].is_done /\ ~steps[3].is_done
    /\ rewards = <<3, 2, 1>>

\* C3 as stated: at a done Step, a batch shorter than the threshold means
\* reset and a new episode; otherwise (length >= threshold) collection
\* stops there and issues no further environment call.
C3_AsStated ==
    [][(pc = "advance" /\ step.is_done) =>
         IF Len(steps) < threshold
         THEN ResetIssued /\ pc' \in {"sample", "error"}
         ELSE ~EnvCalled /\ pc' = "report"]_vars

\* C3 amended: at a done Step the environment is reset at once whatever
\* the batch length; after the reset a batch of at most threshold Steps
\* means a new episode, a longer one means collection stops at that Step;
\* once stopped, the collection issues no further environment call.
C3_ResetThenBreakAboveThreshold ==
    [][/\ (pc = "advance" /\ step.is_done) =>
            /\ ResetIssued
            /\ env_state' = "running" =>
                 IF Len(steps) <= threshold
                 THEN pc' = "sample" /\ env_len' = 0 /\ steps' = steps
                 ELSE pc' = "report" /\ steps' = steps
       /\ Exited => ~EnvCalled]_vars

\* The loop has gone round after a done Step that made the batch exactly
\* threshold long.
C3_Witness ==
    /\ pc = "sample"
    /\ threshold > 0
    /\ Len(steps) = threshold
    /\ steps[Len(steps)].is_done
    /\ trace[Len(trace)].call = "reset"

\* C4: over the whole run env.step is only called on a running episode:
\* never before the first reset, never after a done Step without a reset
\* in between.
C4_StepOnlyOnRunningEpisode ==
    [][(pc = "sample" /\ pc' # "sample") => env_state = "running"]_vars

\* An env.step answered in a later epoch, after an earlier done Step.
C4_Witness ==
    /\ epoch_idx >= 1
    /\ pc = "advance"
    /\ Len(steps) >= 2
    /\ steps[1].is_done

\* C5: every Step of the batch records the observation the environment
\* answered just before the Step's own env.step call (the reset's for the
\* first Step of an episode, the preceding step's otherwise), with the
\* action, reward and is_done of its own call.
C5_StepRecordsPreStepObservation ==
    /\ Len(steps) = Len(AnsweredSteps)
    /\ \A p \in 1 .. Len(trace) :
         trace[p].call = "step" =>
           LET i == StepsUpTo(p)
           IN /\ p > 1
              /\ steps[i].obs = trace[p - 1].obs
              /\ steps[i].action = trace[p].action
              /\ steps[i].reward = trace[p].reward
              /\ steps[i].is_done = trace[p].is_done
              /\ IF i = 1 \/ steps[i - 1].is_done
                 THEN trace[p - 1].call = "reset"
                 ELSE trace[p - 1].call = "step"

\* The second Step of an episode holds the first step's answer (1) while
\* its own call answered another observation (2).
C5_Witness ==
    /\ Len(steps) >= 2
    /\ ~steps[1].is_done
    /\ steps[2].obs = 1
    /\ trace[3].obs = 2

\* C6: the reported episode count is the number of done Steps, the
\* reported average is the sum of the environment's raw rewards over that
\* count, and the Steps still hold the raw rewards once the reward-to-go
\* has been computed.
C6_ReportUsesRawRewards ==
    pc \in {"prepare", "update"} =>
        /\ episodes = Cardinality({i \in 1 .. Len(steps) : steps[i].is_done})
        /\ episodes > 0
        /\ sum_r = SumSeq(RawRewards)
        /\ avg[2] > 0
        /\ avg[1] * episodes = SumSeq(RawRewards) * avg[2]
        /\ pc = "update" =>
             \A i \in 1 .. Len(steps) : steps[i].reward = RawRewards[i]

\* Two episodes, and reward-to-go values that differ from the raw rewards.
C6_Witness ==
    /\ pc = "update"
    /\ episodes = 2
    /\ SumSeq(rewards) # sum_r

\* C7: the action mask of a batch of N Steps is an N x NumActions matrix
\* of zeros and ones, rows in batch order, each row with its single 1 at
\* the column of the Step's action.
C7_ActionMaskOneHot ==
    pc = "update" =>
        /\ DOMAIN action_mask = 1 .. Len(steps)
        /\ \A i \in 1 .. Len(steps) :
             /\ DOMAIN action_mask[i] = 0 .. (NumActions - 1)
             /\ \A c \in 0 .. (NumActions - 1) :
                  action_mask[i][c] = IF c = steps[i].action THEN 1 ELSE 0

\* A mask of three rows for the actions 1, 0, 1.
C7_Witness ==
    /\ pc = "update"
    /\ Len(steps) = 3
    /\ steps[1].action = 1 /\ steps[2].action = 0 /\ steps[3].action = 1
    /\ action_mask[2][0] = 1

\* C8: once an environment call has failed the run has ended with the
\* error: nothing more executes (no retry, no environment call, no report,
\* no optimizer step), and the parameters and the reports are those of the
\* completed epochs.
C8_FailFast ==
    env_state = "failed" =>
        /\ pc = "error"
        /\ ~ENABLED Next
        /\ params = epoch_idx
        /\ n_printed = epoch_idx

\* A reset that failed between two episodes of the second epoch.
C8_Witness ==
    /\ pc = "error"
    /\ epoch_idx = 1
    /\ Len(steps) >= 1
    /\ steps[Len(steps)].is_done

\* C9: the optimizer has stepped once per completed epoch; it steps only
\* at the end of an epoch, when the rollout has ended and the reward-to-go
\* has been computed; every action of the epoch so far was sampled under
\* the current parameters; a run that ends without error has stepped
\* NumEpochs times.
C9_OneOptimizerStepPerEpoch ==
    /\ [](/\ params = epoch_idx
          /\ sampled_under \subseteq {params}
          /\ pc = "done" => params = NumEpochs)
    /\ [][params' # params =>
            /\ pc = "update"
            /\ params' = params + 1
            /\ Len(steps) > 0
            /\ steps[Len(steps)].is_done
            /\ Len(rewards) = Len(steps)]_vars

\* The run has ended without error.
C9_Witness ==
    pc = "done" /\ params = NumEpochs /\ env_state = "running"

\* The rollout loop is collecting an episode that never ends.
Stuck == env_kind = "endless" /\ pc \in {"sample", "advance"}

\* C10: a run in which no environment call fails and no collected episode
\* is endless eventually completes all epochs; while an endless episode is
\* being collected the rollout loop is never left.
C10_Termination ==
    /\ <>(pc = "done" \/ env_state = "failed" \/ Stuck)
    /\ [](pc = "done" => epoch_idx = NumEpochs)
    /\ [][Stuck => /\ env_kind' = "endless"
                   /\ pc' \in {"sample", "advance", "error"}
                   /\ epoch_idx' = epoch_idx]_vars

\* An endless episode has made the batch longer than the threshold asks
\* and the loop is still collecting.
C10_Witness ==
    Stuck /\ pc = "sample" /\ Len(steps) > threshold + 1

====
